---- MODULE Spec2Model ----
(***************************************************************************)
(* One QtDownload session of platform/qt_download.cpp: the constructor,   *)
(* StartRequest, the three slots connected to the network reply           *)
(* (OnHttpReadyRead, OnUpdateDataReadProgress, OnHttpFinished) and the     *)
(* destructor, together with the two files the session touches (the       *)
(* temporary ".downloading" file and the destination file).                *)
(*                                                                         *)
(* Qt calls are modelled by their documented behaviour:                    *)
(*  - QFile::open(WriteOnly) truncates, QFile::open(Append) keeps the      *)
(*    content and writes at the end;                                       *)
(*  - QIODevice::close() resets the device position, and pos() of a closed *)
(*    device is 0;                                                         *)
(*  - QIODevice::write() on a device that is not open writes nothing and   *)
(*    returns -1;                                                          *)
(*  - QFile::size(), resize(), remove() and rename() work on closed files; *)
(*  - QFile::rename() fails when the new name already exists;              *)
(*  - QNetworkReply::abort() emits finished() (possibly preceded by a last *)
(*    downloadProgress()) before it returns.                               *)
(* The environment failures modelled are the ones the code tests for: the  *)
(* open in the constructor and the rename at the end of the download.      *)
(***************************************************************************)
EXTENDS Integers, Sequences, FiniteSets, TLC

\* ---------------------------------------------------------------- bounds
MaxChunks == 3       \* readyRead() notifications delivered to one session
MaxRedirects == 1    \* redirect answers the servers give to one session
MaxProgress == 1     \* downloadProgress() notifications delivered

\* ------------------------------------------------------ program constants
MAX_AUTOMATIC_RETRIES == 2

\* QNetworkReply::NetworkError values the code compares with
NoError == 0
UnknownNetworkError == 99
ContentNotFoundError == 203

\* The values m_reply->error() takes here: two below or at UnknownNetworkError
\* (1 is ConnectionRefusedError), two above it (101 is
\* ProxyConnectionRefusedError).
NetErrors == {1, UnknownNetworkError, 101, ContentNotFoundError}

\* ---------------------------------------------------------------- values
\* The body chunk the k-th readyRead() delivers: the code never looks into
\* the bytes, so each chunk is one byte that names its place in the delivery.
Chunk(k) == <<k>>

\* The URL the caller asks for.
Urls == {[host |-> "a", path |-> "/f"]}
\* A redirection target is a URL reference: host "" is a relative reference.
NoTarget == [host |-> "", path |-> ""]
RedirectionTargets == {[host |-> "", path |-> "/g"], [host |-> "b", path |-> "/f"]}

NoFile == [exists |-> FALSE, data |-> <<>>]
File(d) == [exists |-> TRUE, data |-> d]

\* What may lie on disk before the session starts.
InitialTmpFiles == {NoFile, File(<<>>), File(<<8, 9>>)}
InitialDstFiles == {NoFile, File(<<7>>)}

NullFile == [alloc |-> FALSE, openMode |-> "NotOpen", pos |-> 0]

VARIABLES
  pc,                   \* "new", "live", "aborting", "deleteLater", "destroyed"
  m_currentUrl,
  objectName,
  m_reply,              \* 0, or the number of the request in flight
  m_file,               \* the QFile object: allocated, open mode, position
  m_httpRequestAborted,
  m_finish,             \* TRUE when the finish callback is non-empty
  m_progress,           \* TRUE when the progress callback is non-empty
  m_retryCounter,
  tmpFile,              \* the file at fileName + DOWNLOADING_FILE_EXTENSION
  dstFile,              \* the file at fileName
  request,              \* the last request handed to the network manager
  requestCount,         \* the number of requests handed to it
  inFlight,             \* the requests whose reply has not emitted finished()
  finishCalls,          \* the calls of m_finish, in order
  progressCalls,        \* the number of calls of m_progress
  progressSeen,         \* downloadProgress() notifications delivered
  chunksSeen,           \* readyRead() notifications delivered
  redirectsSeen,        \* redirect answers processed
  transientSeen,        \* transient errors processed while not aborted
  delivered,            \* bytes delivered since the file was last opened
  lastReply,            \* error() and redirection target of the reply last
                        \* handled by OnHttpFinished while not aborted
  replyBytes,           \* bytes delivered by the request in flight
  tmpFile0,             \* tmpFile before the session
  dstFile0,             \* dstFile before the session
  useResume0,           \* the constructor's useResume
  ended                 \* "", "openFailed", "netFailed", "ok", "fileLocked",
                        \* "aborted": how the session came to its end

vars ==
  <<pc, m_currentUrl, objectName, m_reply, m_file, m_httpRequestAborted,
    m_finish, m_progress, m_retryCounter, tmpFile, dstFile, request,
    requestCount, inFlight,
    finishCalls, progressCalls, progressSeen, chunksSeen, redirectsSeen,
    transientSeen, delivered, lastReply, replyBytes, tmpFile0, dstFile0,
    useResume0, ended>>

\* ------------------------------------------------------------ QFile, QUrl

\* QFile::open(mode) on the temporary file: the file after the open.
QFileOpenDisk(mode, f) ==
  IF mode = "Append" /\ f.exists THEN f ELSE File(<<>>)

\* QFile::open(mode): the QFile object after a successful open.
QFileOpenObject(mode, f) ==
  [alloc |-> TRUE, openMode |-> mode,
   pos |-> IF mode = "Append" THEN Len(QFileOpenDisk(mode, f).data) ELSE 0]

\* QFile::close(): the device is not open any more and its position is 0.
QFileClose(q) == [q EXCEPT !.openMode = "NotOpen", !.pos = 0]

\* QFile::pos()
QFilePos(q) == q.pos

\* QFile::size(): the size of the file on disk, 0 when there is none.
QFileSize(f) == IF f.exists THEN Len(f.data) ELSE 0

\* QFile::write(bytes): the file on disk after the call.
QFileWriteDisk(q, f, bytes) ==
  IF q.openMode = "NotOpen" \/ ~f.exists THEN f
  ELSE LET at == IF q.openMode = "Append" THEN Len(f.data) ELSE q.pos
           rest == IF at + Len(bytes) < Len(f.data)
                   THEN SubSeq(f.data, at + Len(bytes) + 1, Len(f.data))
                   ELSE <<>>
       IN File(SubSeq(f.data, 1, at) \o bytes \o rest)

\* QFile::write(bytes): the QFile object after the call.
QFileWriteObject(q, f, bytes) ==
  IF q.openMode = "NotOpen" \/ ~f.exists THEN q
  ELSE LET at == IF q.openMode = "Append" THEN Len(f.data) ELSE q.pos
       IN [q EXCEPT !.pos = at + Len(bytes)]

\* QUrl::resolved(relative)
resolved(base, ref) ==
  IF ref.host = "" THEN [host |-> base.host, path |-> ref.path] ELSE ref

\* ------------------------------------------------------------- the session

\* Mutant: the constructor ignores useResume and always truncates.
OpenMode_AlwaysTruncate(useResume) == "WriteOnly"

\* The open mode the constructor asks for.
OpenMode(useResume) == IF useResume THEN "Append" ELSE "WriteOnly"

NoReply == [error |-> NoError, redirectionTarget |-> NoTarget]

NoRequest == [url |-> NoTarget, range |-> -1]

\* Mutant: the Range header is set whatever the size (fileSize >= 0).
StartRequest_AlwaysRange(url, f) == [url |-> url, range |-> QFileSize(f)]

\* StartRequest: the request built for url when the temporary file is f.
\* range = -1 stands for "no Range header".
StartRequest(url, f) ==
  [url |-> url,
   range |-> IF QFileSize(f) > 0 THEN QFileSize(f) ELSE -1]

\* if (m_finish) m_finish(url, status)
CallFinish(calls, has, url, status) ==
  IF has THEN Append(calls, [url |-> url, status |-> status]) ELSE calls

Init ==
  /\ pc = "new"
  /\ m_currentUrl = NoTarget
  /\ objectName = NoTarget
  /\ m_reply = 0
  /\ m_file = NullFile
  /\ m_httpRequestAborted = FALSE
  /\ m_finish \in BOOLEAN
  /\ m_progress \in BOOLEAN
  /\ m_retryCounter = 0
  /\ tmpFile \in InitialTmpFiles
  /\ dstFile \in InitialDstFiles
  /\ request = NoRequest
  /\ requestCount = 0
  /\ inFlight = {}
  /\ finishCalls = <<>>
  /\ progressCalls = 0
  /\ progressSeen = 0
  /\ chunksSeen = 0
  /\ redirectsSeen = 0
  /\ transientSeen = 0
  /\ delivered = <<>>
  /\ lastReply = NoReply
  /\ replyBytes = 0
  /\ tmpFile0 = tmpFile
  /\ dstFile0 = dstFile
  /\ useResume0 = FALSE
  /\ ended = ""

\* Mutant: the open failure is logged but not reported.
OpenFailureCalls_Silent(calls, has, url) == calls

\* if (m_finish) m_finish(url, EHttpDownloadFailed);
OpenFailureCalls(calls, has, url) ==
  CallFinish(calls, has, url, "EHttpDownloadFailed")

\* QtDownload::QtDownload, the open fails
ConstructorOpenFails ==
  /\ pc = "new"
  /\ \E url \in Urls, useResume \in BOOLEAN :
       /\ m_currentUrl' = url
       /\ useResume0' = useResume
       /\ finishCalls' = OpenFailureCalls(finishCalls, m_finish, url)
  /\ m_file' = NullFile
  /\ pc' = "deleteLater"
  /\ ended' = "openFailed"
  /\ UNCHANGED <<objectName, m_reply, m_httpRequestAborted, m_finish,
                 m_progress, m_retryCounter, tmpFile, dstFile, request,
                 requestCount, inFlight, progressCalls, progressSeen,
                 chunksSeen, redirectsSeen, transientSeen, delivered,
                 lastReply, replyBytes, tmpFile0, dstFile0>>

\* Mutant: the constructor opens fileName itself, without the extension.
DstAfterOpen_NoExtension(mode, dst) == QFileOpenDisk(mode, dst)

\* tmpFileName += DOWNLOADING_FILE_EXTENSION: the file at fileName after the
\* open of the temporary file
DstAfterOpen(mode, dst) == dst

\* QtDownload::QtDownload, the open succeeds
ConstructorOpens ==
  /\ pc = "new"
  /\ \E url \in Urls, useResume \in BOOLEAN :
       /\ m_currentUrl' = url
       /\ objectName' = url
       /\ useResume0' = useResume
       /\ tmpFile' = QFileOpenDisk(OpenMode(useResume), tmpFile)
       /\ m_file' = QFileOpenObject(OpenMode(useResume), tmpFile)
       /\ dstFile' = DstAfterOpen(OpenMode(useResume), dstFile)
       /\ request' = StartRequest(url, tmpFile')
  /\ delivered' = <<>>
  /\ requestCount' = requestCount + 1
  /\ m_reply' = requestCount'
  /\ inFlight' = (inFlight \ {m_reply}) \cup {requestCount'}
  /\ pc' = "live"
  /\ UNCHANGED <<m_httpRequestAborted, m_finish, m_progress, m_retryCounter,
                 finishCalls, progressCalls, progressSeen, chunksSeen,
                 redirectsSeen, transientSeen, lastReply, replyBytes,
                 tmpFile0, dstFile0, ended>>

\* QtDownload::OnHttpReadyRead
OnHttpReadyRead ==
  /\ pc = "live"
  /\ chunksSeen < MaxChunks
  /\ LET bytes == Chunk(chunksSeen + 1) IN
       /\ delivered' = delivered \o bytes
       /\ replyBytes' = replyBytes + Len(bytes)
       /\ IF m_file.alloc /\ m_reply # 0
          THEN /\ tmpFile' = QFileWriteDisk(m_file, tmpFile, bytes)
               /\ m_file' = QFileWriteObject(m_file, tmpFile, bytes)
          ELSE UNCHANGED <<tmpFile, m_file>>
  /\ chunksSeen' = chunksSeen + 1
  /\ UNCHANGED <<pc, m_currentUrl, objectName, m_reply, m_httpRequestAborted,
                 m_finish, m_progress, m_retryCounter, dstFile, request,
                 requestCount, inFlight, finishCalls, progressCalls,
                 progressSeen, redirectsSeen, transientSeen, lastReply,
                 tmpFile0, dstFile0, useResume0, ended>>

\* Mutant: the progress slot does not test the abort flag.
ProgressForwarded_NoAbortTest == m_progress

\* if (!m_httpRequestAborted && m_progress)
ProgressForwarded == ~m_httpRequestAborted /\ m_progress

\* QtDownload::OnUpdateDataReadProgress
OnUpdateDataReadProgress ==
  /\ pc \in {"live", "aborting"}
  /\ progressSeen < MaxProgress
  /\ progressSeen' = progressSeen + 1
  /\ progressCalls' = IF ProgressForwarded THEN progressCalls + 1 ELSE progressCalls
  /\ UNCHANGED <<pc, m_currentUrl, objectName, m_reply, m_file,
                 m_httpRequestAborted, m_finish, m_progress, m_retryCounter,
                 tmpFile, dstFile, request, requestCount, inFlight,
                 finishCalls, chunksSeen, redirectsSeen, transientSeen,
                 delivered, lastReply, replyBytes, tmpFile0, dstFile0,
                 useResume0, ended>>

\* Mutant: the reply is scheduled for deletion and the pointer is kept.
ReplyAfterEnd_Kept(reply) == reply

\* m_reply->deleteLater(); m_reply = 0;
ReplyAfterEnd(reply) == 0

\* Mutant: OnHttpFinished does not test the abort flag.
AbortedBranch_NoTest == FALSE

\* if (m_httpRequestAborted) { // we're called from destructor
AbortedBranch == m_httpRequestAborted

\* Mutant: the aborted branch closes the file and forgets to remove it.
AbortedFile_Kept(f) == f

\* m_file->close(); m_file->remove();
AbortedFile(f) == NoFile

\* Mutant: the aborted branch reports the abort (the call commented out).
AbortedCalls_Notify(calls, has, url) ==
  CallFinish(calls, has, url, "EHttpDownloadFailed")

\* "don't notify client when aborted"
AbortedCalls(calls, has, url) == calls

\* QtDownload::OnHttpFinished, if (m_httpRequestAborted)
OnHttpFinishedAborted ==
  /\ pc \in {"live", "aborting"}
  /\ AbortedBranch
  /\ tmpFile' = AbortedFile(tmpFile)
  /\ finishCalls' = AbortedCalls(finishCalls, m_finish, objectName)
  /\ m_file' = NullFile
  /\ m_reply' = ReplyAfterEnd(m_reply)
  /\ inFlight' = inFlight \ {m_reply}
  /\ pc' = "destroyed"
  /\ ended' = "aborted"
  /\ UNCHANGED <<m_currentUrl, objectName, m_httpRequestAborted, m_finish,
                 m_progress, m_retryCounter, dstFile, request, requestCount,
                 progressCalls, progressSeen, chunksSeen, redirectsSeen,
                 transientSeen, delivered, lastReply, replyBytes, tmpFile0,
                 dstFile0, useResume0>>

\* Mutant: every error is taken for a network-level one.
IsTransient_AnyError(netError) == TRUE

\* netError <= QNetworkReply::UnknownNetworkError
IsTransient(netError) == netError <= UnknownNetworkError

\* Mutant: the counter is compared before it is incremented (m_retryCounter++).
TryOneMoreTime_PostIncrement(netError, counter) ==
  IsTransient(netError) /\ counter <= MAX_AUTOMATIC_RETRIES

\* netError <= UnknownNetworkError && ++m_retryCounter <= MAX_AUTOMATIC_RETRIES
TryOneMoreTime(netError, counter) ==
  IsTransient(netError) /\ counter + 1 <= MAX_AUTOMATIC_RETRIES

\* Mutant: the counter is not incremented.
RetryCounterAfter_Forgotten(netError, counter) == counter

\* Mutant: the counter is incremented before the error kind is tested.
RetryCounterAfter_AnyError(netError, counter) == counter + 1

\* m_retryCounter after the test above (++ is not reached for other errors)
RetryCounterAfter(netError, counter) ==
  IF IsTransient(netError) THEN counter + 1 ELSE counter

\* QtDownload::OnHttpFinished, network error, "try one more time"
OnHttpFinishedRetry ==
  /\ pc \in {"live", "aborting"}
  /\ ~AbortedBranch
  /\ \E netError \in NetErrors :
       /\ TryOneMoreTime(netError, m_retryCounter)
       /\ m_retryCounter' = RetryCounterAfter(netError, m_retryCounter)
       /\ lastReply' = [error |-> netError, redirectionTarget |-> NoTarget]
  /\ m_file' = QFileClose(m_file)
  /\ request' = StartRequest(m_currentUrl, tmpFile)
  /\ requestCount' = requestCount + 1
  /\ m_reply' = requestCount'
  /\ inFlight' = (inFlight \ {m_reply}) \cup {requestCount'}
  /\ transientSeen' = transientSeen + 1
  /\ replyBytes' = 0
  /\ UNCHANGED <<pc, m_currentUrl, objectName, m_httpRequestAborted,
                 m_finish, m_progress, tmpFile, dstFile, finishCalls,
                 progressCalls, progressSeen, chunksSeen, redirectsSeen,
                 delivered, tmpFile0, dstFile0, useResume0, ended>>

\* if (m_file->pos() == 0) m_file->remove();
FileAfterFailure(q, f) == IF QFilePos(q) = 0 THEN NoFile ELSE f

\* netError == ContentNotFoundError ? EHttpDownloadFileNotFound : EHttpDownloadFailed
FailureStatus(netError) ==
  IF netError = ContentNotFoundError
  THEN "EHttpDownloadFileNotFound" ELSE "EHttpDownloadFailed"

\* QtDownload::OnHttpFinished, network error, no retry
OnHttpFinishedFailed ==
  /\ pc \in {"live", "aborting"}
  /\ ~AbortedBranch
  /\ \E netError \in NetErrors :
       /\ ~TryOneMoreTime(netError, m_retryCounter)
       /\ m_retryCounter' = RetryCounterAfter(netError, m_retryCounter)
       /\ lastReply' = [error |-> netError, redirectionTarget |-> NoTarget]
       /\ transientSeen' = IF IsTransient(netError) THEN transientSeen + 1
                           ELSE transientSeen
       /\ finishCalls' = CallFinish(finishCalls, m_finish, objectName,
                                    FailureStatus(netError))
  /\ tmpFile' = FileAfterFailure(QFileClose(m_file), tmpFile)
  /\ m_file' = NullFile
  /\ m_reply' = ReplyAfterEnd(m_reply)
  /\ inFlight' = inFlight \ {m_reply}
  /\ pc' = "deleteLater"
  /\ ended' = "netFailed"
  /\ UNCHANGED <<m_currentUrl, objectName, m_httpRequestAborted, m_finish,
                 m_progress, dstFile, request, requestCount, progressCalls,
                 progressSeen, chunksSeen, redirectsSeen, delivered,
                 replyBytes, tmpFile0, dstFile0, useResume0>>

\* Mutant: the redirect reopens the file for appending and keeps its bytes.
RedirectFile_Kept(f) == QFileOpenDisk("Append", f)

\* m_file->open(QIODevice::WriteOnly); m_file->resize(0);
RedirectFile(f) == [QFileOpenDisk("WriteOnly", f) EXCEPT !.data = <<>>]

\* QtDownload::OnHttpFinished, no error, redirection target set. counted is 1;
\* it is 0 for the redirects past MaxRedirects, which leave the numbering of
\* the requests where it is.
RedirectBranch(counted) ==
  /\ pc \in {"live", "aborting"}
  /\ ~AbortedBranch
  /\ \E redirectionTarget \in RedirectionTargets :
       /\ m_currentUrl' = resolved(m_currentUrl, redirectionTarget)
       /\ lastReply' = [error |-> NoError, redirectionTarget |-> redirectionTarget]
  /\ tmpFile' = RedirectFile(tmpFile)
  /\ m_file' = QFileOpenObject("WriteOnly", tmpFile)
  /\ request' = StartRequest(m_currentUrl', tmpFile')
  /\ requestCount' = requestCount + counted
  /\ m_reply' = requestCount'
  /\ inFlight' = (inFlight \ {m_reply}) \cup {requestCount'}
  /\ redirectsSeen' = redirectsSeen + counted
  /\ delivered' = <<>>
  /\ replyBytes' = 0
  /\ UNCHANGED <<pc, objectName, m_httpRequestAborted, m_finish, m_progress,
                 m_retryCounter, dstFile, finishCalls, progressCalls,
                 progressSeen, chunksSeen, transientSeen, tmpFile0, dstFile0,
                 useResume0, ended>>

\* The redirect branch, for the first MaxRedirects redirects of a session
OnHttpFinishedRedirect ==
  /\ redirectsSeen < MaxRedirects
  /\ RedirectBranch(1)

\* The redirect branch, for every redirect after those
OnHttpFinishedRedirectAgain ==
  /\ redirectsSeen >= MaxRedirects
  /\ RedirectBranch(0)

\* QFile::remove(originalFileName): the destination after the call
RemoveOriginal(f, locked) == IF f.exists /\ locked THEN f ELSE NoFile

\* m_file->rename(originalFileName): TRUE when the rename succeeds
Renamed(dst, renameOk) == ~dst.exists /\ renameOk

\* resultForGui ? EHttpDownloadOk : EHttpDownloadFileIsLocked
SuccessStatus(resultForGui) ==
  IF resultForGui THEN "EHttpDownloadOk" ELSE "EHttpDownloadFileIsLocked"

\* The destination after QFile::remove(originalFileName) left `removed` there
\* and m_file->rename(originalFileName) was tried on the temporary file tmp.
RenameResult(tmp, removed, resultForGui) ==
  IF resultForGui THEN tmp ELSE removed

\* Mutant: the temporary file is kept when the rename fails.
TmpAfterRename_KeptWhenLocked(tmp, resultForGui) ==
  IF resultForGui THEN NoFile ELSE tmp

\* The temporary file after the rename: renamed away, or removed
\* (m_file->remove()) when the rename failed.
TmpAfterRename(tmp, resultForGui) == NoFile

\* QtDownload::OnHttpFinished, "download succeeded"
OnHttpFinishedSucceeded ==
  /\ pc \in {"live", "aborting"}
  /\ ~AbortedBranch
  /\ \E locked \in BOOLEAN, renameOk \in BOOLEAN :
       LET removed == RemoveOriginal(dstFile, locked)
           resultForGui == Renamed(removed, renameOk)
       IN /\ dstFile' = RenameResult(tmpFile, removed, resultForGui)
          /\ tmpFile' = TmpAfterRename(tmpFile, resultForGui)
          /\ ended' = IF resultForGui THEN "ok" ELSE "fileLocked"
          /\ finishCalls' = CallFinish(finishCalls, m_finish, objectName,
                                       SuccessStatus(resultForGui))
  /\ m_file' = NullFile
  /\ m_reply' = ReplyAfterEnd(m_reply)
  /\ inFlight' = inFlight \ {m_reply}
  /\ pc' = "deleteLater"
  /\ lastReply' = NoReply
  /\ UNCHANGED <<m_currentUrl, objectName, m_httpRequestAborted, m_finish,
                 m_progress, m_retryCounter, request, requestCount,
                 progressCalls, progressSeen, chunksSeen, redirectsSeen,
                 transientSeen, delivered, replyBytes, tmpFile0, dstFile0,
                 useResume0>>

\* QtDownload::~QtDownload, if (m_reply): the flag is set and abort() is called
DestructorAborts ==
  /\ pc = "live"
  /\ m_reply # 0
  /\ m_httpRequestAborted' = TRUE
  /\ pc' = "aborting"
  /\ UNCHANGED <<m_currentUrl, objectName, m_reply, m_file, m_finish,
                 m_progress, m_retryCounter, tmpFile, dstFile, request,
                 requestCount, inFlight, finishCalls, progressCalls,
                 progressSeen, chunksSeen, redirectsSeen, transientSeen,
                 delivered, lastReply, replyBytes, tmpFile0, dstFile0,
                 useResume0, ended>>

\* QtDownload::~QtDownload, no reply: after deleteLater()
DestructorIdle ==
  /\ pc = "deleteLater"
  /\ m_reply = 0
  /\ pc' = "destroyed"
  /\ UNCHANGED <<m_currentUrl, objectName, m_reply, m_file,
                 m_httpRequestAborted, m_finish, m_progress, m_retryCounter,
                 tmpFile, dstFile, request, requestCount, inFlight,
                 finishCalls, progressCalls, progressSeen, chunksSeen,
                 redirectsSeen, transientSeen, delivered, lastReply,
                 replyBytes, tmpFile0, dstFile0, useResume0, ended>>

Next ==
  \/ ConstructorOpenFails
  \/ ConstructorOpens
  \/ OnHttpReadyRead
  \/ OnUpdateDataReadProgress
  \/ OnHttpFinishedAborted
  \/ OnHttpFinishedRetry
  \/ OnHttpFinishedFailed
  \/ OnHttpFinishedRedirect
  \/ OnHttpFinishedSucceeded
  \/ DestructorAborts
  \/ DestructorIdle

Spec == Init /\ [][Next]_vars

\* QtDownload::OnHttpFinished: the slot, whatever branch it takes
OnHttpFinished ==
  \/ OnHttpFinishedAborted
  \/ OnHttpFinishedRetry
  \/ OnHttpFinishedFailed
  \/ OnHttpFinishedRedirect
  \/ OnHttpFinishedRedirectAgain
  \/ OnHttpFinishedSucceeded

\* The session with servers that may redirect it without end
NextLive == Next \/ OnHttpFinishedRedirectAgain

\* Every reply emits finished() in the end: the slot connected to it runs.
SpecLive == Init /\ [][NextLive]_vars /\ WF_vars(OnHttpFinished)

\* ------------------------------------------------------------------ claims

FinishStatuses == [i \in 1..Len(finishCalls) |-> finishCalls[i].status]

\* What the caller means the temporary file to hold: what the open kept of
\* the file found on disk, then every byte delivered since.
Kept == IF useResume0 THEN tmpFile0.data ELSE <<>>

\* The same after redirects: a redirect starts the file over.
Intended == IF redirectsSeen = 0 THEN Kept \o delivered ELSE delivered

\* C1: the finish callback, when the caller gave one, is called at most once
\* per session: exactly once when the session ended by an open failure, a
\* terminal network failure or the finalization (Ok or FileLocked), and never
\* when it ended by an abort.
C1_FinishOnceOrNeverWhenAborted ==
  /\ Len(finishCalls) <= 1
  /\ (m_finish /\ ended \in {"openFailed", "netFailed", "ok", "fileLocked"})
       => Len(finishCalls) = 1
  /\ ended = "aborted" => Len(finishCalls) = 0

C1_Witness ==
  /\ ended = "netFailed"
  /\ Len(finishCalls) = 1
  /\ m_retryCounter > MAX_AUTOMATIC_RETRIES
  /\ redirectsSeen > 0

\* C2: after at most MAX_AUTOMATIC_RETRIES attempts that ended in a transient
\* error and a last attempt that ended in clean success, with no redirect and
\* the rename done, the callback reports Ok and the destination file holds
\* every byte delivered over all the attempts, in the order of delivery.
C2_RetriedDownloadIsComplete ==
  (ended = "ok" /\ redirectsSeen = 0 /\ transientSeen <= MAX_AUTOMATIC_RETRIES)
    => /\ m_finish => FinishStatuses = <<"EHttpDownloadOk">>
       /\ dstFile = File(Kept \o delivered)

\* C3: a session started with useResume over a temporary file of S > 0 bytes
\* sends its first request with "Range: bytes=S-", and when that transfer ends
\* in clean success and the file is renamed, the destination file holds the S
\* bytes found followed by the bytes delivered.
C3_ResumeFromExistingSize ==
  (useResume0 /\ QFileSize(tmpFile0) > 0 /\ requestCount = 1)
    => /\ request.range = Len(tmpFile0.data)
       /\ ended = "ok" => dstFile = File(tmpFile0.data \o delivered)

C3_Witness ==
  /\ useResume0
  /\ QFileSize(tmpFile0) > 0
  /\ requestCount = 1
  /\ ended = "ok"
  /\ chunksSeen > 1

\* C4: when a session is aborted with a request in flight after bytes were
\* delivered, then after OnHttpFinished has run the finish callback was never
\* called, the temporary file is gone and the destination file is what it was
\* before the session.
C4_AbortLeavesNothing ==
  (ended = "aborted" /\ chunksSeen > 0)
    => /\ finishCalls = <<>>
       /\ ~tmpFile.exists
       /\ dstFile = dstFile0

C4_Witness ==
  /\ ended = "aborted"
  /\ chunksSeen > 1
  /\ dstFile0.exists
  /\ m_finish

\* C5: when a request that delivered N > 0 bytes ends with a redirection target
\* and no error, the session not being aborted, then before the next request
\* goes out the temporary file is empty and open for writing, m_currentUrl is
\* the target (resolved against the URL it was fetched from), the new request
\* has no Range header, and m_retryCounter is what it was.
C5_RedirectStartsOver ==
  [][(redirectsSeen' = redirectsSeen + 1 /\ replyBytes > 0)
       => /\ tmpFile' = File(<<>>)
          /\ m_file'.alloc /\ m_file'.openMode = "WriteOnly"
          /\ lastReply'.redirectionTarget \in RedirectionTargets
          /\ m_currentUrl' =
               IF lastReply'.redirectionTarget.host = ""
               THEN [host |-> m_currentUrl.host,
                     path |-> lastReply'.redirectionTarget.path]
               ELSE lastReply'.redirectionTarget
          /\ requestCount' = requestCount + 1
          /\ request' = [url |-> m_currentUrl', range |-> -1]
          /\ m_retryCounter' = m_retryCounter]_vars

C5_Witness ==
  /\ redirectsSeen > 0
  /\ pc = "live"
  /\ replyBytes = 0
  /\ chunksSeen > 0
  /\ m_retryCounter > 0
  /\ tmpFile = File(<<>>)
  /\ m_currentUrl # objectName

\* C6: over a whole session, redirects included, at most
\* MAX_AUTOMATIC_RETRIES requests are sent again because of a transient error:
\* the first and the second transient error each send the request again to the
\* same m_currentUrl, the third ends the session and the callback reports
\* Failed.
C6_TwoRetriesThenFailed ==
  [][(transientSeen' = transientSeen + 1)
       => IF transientSeen < 2
          THEN /\ requestCount' = requestCount + 1
               /\ m_currentUrl' = m_currentUrl
               /\ request'.url = m_currentUrl
               /\ pc' = "live" /\ ended' = ""
               /\ finishCalls' = finishCalls
          ELSE /\ transientSeen = 2
               /\ requestCount' = requestCount
               /\ ended' = "netFailed"
               /\ m_reply' = 0
               /\ m_finish => FinishStatuses' = <<"EHttpDownloadFailed">>]_vars

C6_Witness ==
  /\ transientSeen = 3
  /\ redirectsSeen > 0
  /\ requestCount = 2 + 1 + redirectsSeen
  /\ ended = "netFailed"
  /\ m_finish

\* C7: when a session ends in failure (a permanent network error, or a
\* transient one with the retries used up), the temporary file is removed if
\* and only if it holds 0 bytes then; a file of more than 0 bytes stays on disk
\* with its content.
C7_FailureKeepsPartialFile ==
  [][(ended = "" /\ ended' = "netFailed")
       => IF QFileSize(tmpFile) = 0 THEN ~tmpFile'.exists
          ELSE tmpFile' = tmpFile]_vars

\* C8: when a session finalizes after a clean success over an existing
\* destination file, that file is replaced by the downloaded content; when the
\* rename fails the status is FileLocked; the destination never holds a part
\* of the download: it is the whole download (Ok), or the old file or no file
\* (FileLocked).
C8_DestinationNeverPartial ==
  /\ ended = "ok"
       => /\ dstFile = File(Intended)
          /\ m_finish => FinishStatuses = <<"EHttpDownloadOk">>
  /\ ended = "fileLocked"
       => /\ dstFile \in {NoFile, dstFile0}
          /\ m_finish => FinishStatuses = <<"EHttpDownloadFileIsLocked">>

\* C9: when the open of the temporary file fails in the constructor, the
\* finish callback is called once with EHttpDownloadFailed, no request is ever
\* sent and the session ends without a retry.
C9_OpenFailureReportedNoRequest ==
  ended = "openFailed"
    => /\ m_finish => finishCalls = <<[url |-> m_currentUrl,
                                       status |-> "EHttpDownloadFailed"]>>
       /\ requestCount = 0
       /\ m_reply = 0
       /\ m_retryCounter = 0
       /\ pc \in {"deleteLater", "destroyed"}

C9_Witness ==
  /\ ended = "openFailed"
  /\ pc = "destroyed"
  /\ Len(finishCalls) = 1

\* C10: once m_httpRequestAborted is set, no callback of the caller is called
\* any more: not the progress callback, whatever progress notifications still
\* arrive, and not the finish callback, whatever the reply ended with.
C10_NoCallbackAfterAbort ==
  [][(m_httpRequestAborted \/ m_httpRequestAborted')
       => /\ progressCalls' = progressCalls
          /\ finishCalls' = finishCalls]_vars

C10_Witness ==
  /\ m_httpRequestAborted
  /\ m_progress /\ m_finish
  /\ progressSeen > progressCalls
  /\ ended = "aborted"

Terminal == pc \in {"deleteLater", "destroyed"}

\* C11: a session has at most one request in flight, and exactly one while it
\* waits for or streams a reply; a retry or a redirect sends the new request
\* only when the previous reply has finished, and no request is in flight in a
\* terminal state.
C11_OneRequestInFlight ==
  /\ Cardinality(inFlight) <= 1
  /\ pc \in {"live", "aborting"} => inFlight = {m_reply} /\ m_reply = requestCount
  /\ (pc = "new" \/ Terminal) => inFlight = {} /\ m_reply = 0

C11_Witness ==
  /\ pc = "live"
  /\ requestCount = 1 + MAX_AUTOMATIC_RETRIES + redirectsSeen
  /\ redirectsSeen > 0
  /\ inFlight = {requestCount}

\* C12 as claimed: 0 <= m_retryCounter <= MAX_AUTOMATIC_RETRIES in every state.
C12_CounterWithinRetries ==
  m_retryCounter \in 0..2

\* C12 amended: 0 <= m_retryCounter <= MAX_AUTOMATIC_RETRIES + 1; it is at most
\* MAX_AUTOMATIC_RETRIES while a request is in flight, and it is
\* MAX_AUTOMATIC_RETRIES + 1 only after the transient error that used up the
\* retries and ended the session in failure.
C12_CounterWithinRetriesPlusOne ==
  /\ m_retryCounter \in 0..3
  /\ pc \in {"live", "aborting"} => m_retryCounter <= 2
  /\ m_retryCounter = 3 => ended = "netFailed" /\ lastReply.error \in 1..99

C12_Witness ==
  /\ m_retryCounter = 3
  /\ ended = "netFailed"
  /\ redirectsSeen > 0

\* C13 as claimed: m_retryCounter never decreases and changes only by +1, on
\* a step that sends the request again after a transient error.
C13_CounterChangesOnlyOnReissue ==
  [][m_retryCounter' # m_retryCounter
       => /\ m_retryCounter' = m_retryCounter + 1
          /\ lastReply'.error \in 1..99
          /\ requestCount' = requestCount + 1]_vars

\* C13 amended: m_retryCounter never decreases and changes only by +1, on a
\* step that handles a transient error: one that sends the request again, or
\* the one that finds the retries used up and ends the session in failure.
\* Chunk, progress, redirect, permanent-error, clean-success and abort steps
\* leave it unchanged.
C13_CounterChangesOnlyOnTransientError ==
  [][/\ m_retryCounter' >= m_retryCounter
     /\ m_retryCounter' # m_retryCounter
          => /\ m_retryCounter' = m_retryCounter + 1
             /\ lastReply'.error \in 1..99
             /\ \/ requestCount' = requestCount + 1 /\ pc' = "live"
                \/ requestCount' = requestCount /\ ended' = "netFailed"
     /\ (\/ chunksSeen' # chunksSeen
         \/ progressSeen' # progressSeen
         \/ redirectsSeen' # redirectsSeen
         \/ lastReply'.error > 99 /\ pc' # pc
         \/ ended' \in {"ok", "fileLocked", "aborted"}
         \/ m_httpRequestAborted' # m_httpRequestAborted)
          => m_retryCounter' = m_retryCounter]_vars

C13_Witness ==
  /\ m_retryCounter = 3
  /\ requestCount = 3
  /\ ended = "netFailed"
  /\ chunksSeen > 0

\* C14: a reply that ends with a permanent error (above UnknownNetworkError)
\* is never retried, whatever is left of the retries: the session ends at once,
\* and the callback reports FileNotFound if and only if the error is
\* ContentNotFoundError, Failed for every other error that ends a session.
C14_PermanentErrorEndsSession ==
  /\ lastReply.error > 99
       => /\ ended = "netFailed" /\ Terminal
          /\ m_reply = 0 /\ inFlight = {}
          /\ m_retryCounter <= 2
  /\ (ended = "netFailed" /\ m_finish)
       => FinishStatuses =
            <<IF lastReply.error = 203 THEN "EHttpDownloadFileNotFound"
              ELSE "EHttpDownloadFailed">>

C14_Witness ==
  /\ lastReply.error = 203
  /\ m_retryCounter = 0
  /\ FinishStatuses = <<"EHttpDownloadFileNotFound">>

\* C15: while a request is in flight and the session is not aborted, the
\* temporary file is open for writing and holds what it held when it was last
\* opened or truncated followed by every chunk delivered since, the chunks of
\* a request sent again after a transient error included.
C15_FileFollowsDelivery ==
  (pc = "live" /\ ~m_httpRequestAborted)
    => /\ m_file.alloc /\ m_file.openMode # "NotOpen"
       /\ tmpFile = File(Intended)

\* C16: every request (the first, one sent after a transient error, one sent
\* after a redirect) has a Range header if and only if the temporary file is
\* larger than 0 bytes when the request is built, and then the offset is that
\* size; useResume and every other value play no part.
C16_RangeIsFileSize ==
  [][requestCount' # requestCount
       => /\ requestCount' = requestCount + 1
          /\ request'.range = IF tmpFile'.exists /\ Len(tmpFile'.data) > 0
                              THEN Len(tmpFile'.data) ELSE -1]_vars

C16_Witness ==
  /\ requestCount = 2
  /\ transientSeen = 1
  /\ ~useResume0
  /\ request.range = 2

\* C17: the destination file changes only in the finalization that follows a
\* clean success: the constructor, the chunks, a retry, a redirect, and a
\* session that ends by an open failure, a network failure or an abort leave
\* the file at the destination path, present or absent, as it was.
C17_DestinationOnlyFinalized ==
  ended \in {"", "openFailed", "netFailed", "aborted"} => dstFile = dstFile0

C17_Witness ==
  /\ ended = "netFailed"
  /\ dstFile0.exists
  /\ redirectsSeen > 0
  /\ transientSeen > 0
  /\ chunksSeen > 0

\* C18 as claimed: when every reply emits finished() in the end, every session
\* comes to a terminal state, whatever the replies end with.
C18_SessionTerminates ==
  (pc \in {"live", "aborting"}) ~> Terminal

\* C18 amended: when every reply emits finished() in the end, a session sends
\* at most 1 + MAX_AUTOMATIC_RETRIES requests beyond the redirects it follows,
\* and it comes to a terminal state unless its replies redirect it again and
\* again without end.
C18_TerminatesUnlessRedirectedForever ==
  /\ [](requestCount <= 1 + 2 + redirectsSeen)
  /\ \/ []<>(pc = "live" /\ lastReply.redirectionTarget # NoTarget)
     \/ (pc \in {"live", "aborting"}) ~> Terminal

C18_Witness ==
  /\ Terminal
  /\ ended = "ok"
  /\ redirectsSeen = MaxRedirects
  /\ requestCount = 1 + 2 + redirectsSeen
  /\ m_retryCounter = MAX_AUTOMATIC_RETRIES

\* C19: once m_httpRequestAborted is set the session sends no request any
\* more: the next finished() takes the aborted branch whatever the reply ended
\* with, so there is no retry, no redirect followed and no rename afterwards.
C19_NoRequestAfterAbort ==
  [][m_httpRequestAborted
       => /\ requestCount' = requestCount
          /\ request' = request
          /\ m_retryCounter' = m_retryCounter
          /\ m_currentUrl' = m_currentUrl
          /\ redirectsSeen' = redirectsSeen
          /\ dstFile' = dstFile
          /\ pc' # pc => (ended' = "aborted" /\ ~tmpFile'.exists
                          /\ m_reply' = 0 /\ inFlight' = {})]_vars

C19_Witness ==
  /\ ended = "aborted"
  /\ m_retryCounter = 1
  /\ redirectsSeen = 1
  /\ dstFile0.exists

\* C20: in a terminal state the session holds neither the QFile nor a reply;
\* in a terminal state other than a failure (Ok, FileLocked, aborted) there is
\* no file at the temporary path; after FileLocked the downloaded bytes are
\* neither at the temporary path nor at the destination path.
C20_TerminalHoldsNothing ==
  /\ Terminal => m_file = NullFile /\ m_reply = 0
  /\ ended \in {"ok", "fileLocked", "aborted"} => ~tmpFile.exists
  /\ ended = "fileLocked" => dstFile \in {dstFile0, NoFile}

C20_Witness ==
  /\ ended = "fileLocked"
  /\ chunksSeen > 0
  /\ ~dstFile.exists
  /\ dstFile0.exists
====
